---- MODULE Spec2Model ----
(***************************************************************************)
(* A model of dlpxdbprofiler: the profile-job scheduler of main.py         *)
(* (op_run_profile_jobs, _run_single_profile_job,                          *)
(* _run_profile_jobs_parallel), the remote-resource client of ce_client.py *)
(* and the schema introspectors of db_*.py.                                *)
(***************************************************************************)
EXTENDS Integers, Sequences, FiniteSets, TLC

\* Python's None.
None == "None"

(***************************************************************************)
(* Bounds of the model.                                                    *)
(***************************************************************************)
\* Longest profile-job list the remote returns.
MaxJobs == 3
\* Largest degree of parallelism typed at the prompt.
MaxParallel == 2
\* The count of get_execution_status calls answered in progress saturates here.
MaxPolls == 1

(***************************************************************************)
(* Values                                                                  *)
(***************************************************************************)
\* profileJobId values as the remote sends them: decimal digit strings
\* (sequences of digits), converted with int() wherever they are compared.
JobIds == {<<3>>, <<5>>, <<9>>, <<1, 0>>}

\* Statuses a GET /executions/{id} response may carry; None is a response
\* without a "status" key, "QUEUED" a value the code does not know.
TerminalStatuses == {"SUCCEEDED", "FAILED", "ERROR", "CANCELLED"}
InProgressStatuses == {"PENDING", "RUNNING", "QUEUED", None}
Statuses == TerminalStatuses \cup InProgressStatuses

\* What is typed at the "Max parallel profile jobs" prompt: the text of an
\* integer, or text int() rejects; NotAsked when the prompt is not reached.
ParallelInputs ==
    {[text |-> "int", val |-> n] : n \in -1 .. MaxParallel}
        \cup {[text |-> "abc", val |-> 0]}
NotAsked == [text |-> "", val |-> 0]

\* All sequences over S without repetition, of length at most n.
RECURSIVE DistinctSeqs(_, _)
DistinctSeqs(S, n) ==
    IF n = 0 \/ S = {} THEN {<<>>}
    ELSE {<<>>} \cup
         UNION {{<<x>> \o t : t \in DistinctSeqs(S \ {x}, n - 1)} : x \in S}

\* int(s) of a decimal digit string.
RECURSIVE IntOf(_)
IntOf(s) ==
    IF s = <<>> THEN 0
    ELSE IntOf(SubSeq(s, 1, Len(s) - 1)) * 10 + s[Len(s)]

\* The sort key of main.py: lambda x: int(x["profileJobId"]).
JobKey(job) == IntOf(job)

\* A sort that leaves the list as it came.
MutantSortedJobs(js) == js

\* A sort that hands the list back in reverse.
MutantReversedJobs(js) == [i \in 1 .. Len(js) |-> js[Len(js) + 1 - i]]

\* One insertion of a stable sort: x goes after every element whose key is
\* not greater.
RECURSIVE InsertByKey(_, _)
InsertByKey(x, s) ==
    IF s = <<>> THEN <<x>>
    ELSE IF JobKey(x) < JobKey(Head(s)) THEN <<x>> \o s
    ELSE <<Head(s)>> \o InsertByKey(x, Tail(s))

RECURSIVE SortFrom(_, _)
SortFrom(js, acc) ==
    IF js = <<>> THEN acc ELSE SortFrom(Tail(js), InsertByKey(Head(js), acc))

\* sorted(jobs, key=lambda x: int(x["profileJobId"]))
SortedJobs(js) == SortFrom(js, <<>>)

\* A remove that leaves the list as it is.
MutantRemove(s, item) == s

\* A remove that empties the list.
MutantRemoveAll(s, item) == <<>>

\* list.remove(item): drops the first element equal to item.
RECURSIVE Remove(_, _)
Remove(s, item) ==
    IF s = <<>> THEN <<>>
    ELSE IF Head(s) = item THEN Tail(s)
    ELSE <<Head(s)>> \o Remove(Tail(s), item)

\* The clamp that lets any max_parallel through.
MutantClamp(n) == n

\* A clamp that falls back to two.
MutantClampToTwo(n) == IF n <= 0 THEN 2 ELSE n

\* An emptiness test that takes every list for non-empty.
MutantNoJobs(js) == FALSE

\* not jobs
NoJobs(js) == js = <<>>

\* if max_parallel <= 0: max_parallel = 1
Clamp(n) == IF n <= 0 THEN 1 ELSE n

\* int(parallel_str) with the ValueError fallback to 1.
ParseParallel(str) == IF str.text = "int" THEN str.val ELSE 1

(***************************************************************************)
(* State of one op_run_profile_jobs call.                                  *)
(***************************************************************************)
VARIABLES
    jobs,          \* ce.list_profile_jobs_for_env(env_id): the ids, in the remote's order
    scope,         \* choose_profile_run_scope: "SINGLE" or "ALL"
    mode,          \* run mode typed for ALL: "1" serial, "2" parallel
    parallel_str,  \* text typed at the max-parallel prompt
    sel_id,        \* job id the user means to run in single mode
    faults,        \* whether the remote API may answer a call with an error
    pc,            \* position in the operation
    max_parallel,  \* max_parallel after the clamp; 0 until it is assigned
    pending,       \* the sorted job list
    index,         \* next position of pending to submit (0-based, as in the code)
    running,       \* submitted executions not yet seen terminal
    pollq,         \* rest of the snapshot list(running) of the current poll pass
    exec_id,       \* _run_single_profile_job's execution, 0 outside it
    started,       \* job ids passed to start_profile_execution, in call order
    term,          \* records of the executions seen terminal and what was logged
    polls,         \* get_execution_status calls answered in progress (saturating)
    outcome,       \* how the operation ended
    track_status,  \* whether last_status is kept (it is in StatusSpec only)
    last_status    \* the polling loops' exec_id and status = data.get("status")
                   \*   after the last status call, when track_status

schedVars == <<jobs, scope, mode, parallel_str, sel_id, faults, pc, max_parallel,
               pending, index, running, pollq, exec_id, started, term, polls,
               outcome, track_status, last_status>>

(***************************************************************************)
(* State of the remote compliance engine and of a client driving           *)
(* CEClient.ensure_application / ensure_environment against it.            *)
(***************************************************************************)
VARIABLES
    apps,          \* the remote's applications: [applicationId, applicationName]
    envs,          \* the remote's environments: [environmentId, environmentName,
                   \*   applicationId, purpose]
    posts,         \* the create calls issued: [path, payload], in call order
    results        \* what each ensure call of the client returned, in call order

ensureVars == <<apps, envs, posts, results>>

(***************************************************************************)
(* State of one schema introspector (OracleDB, MSSQLDB, PostgresDB) and of *)
(* the database it reads.                                                  *)
(***************************************************************************)
VARIABLES
    engine,        \* which introspector: "ORACLE", "MSSQL" or "POSTGRES"
    sid,           \* OracleDB's sid argument; None otherwise
    service_name,  \* OracleDB's service_name argument; None otherwise
    db_schemas,    \* the schema names the catalog query ranges over
    db_up,         \* whether the database accepts a connection
    ipc,           \* "new", "ready" (constructed), "listed", "failed"
    connection,    \* OracleDB.connection: None or "open"
    open_conns,    \* connections open at the database
    connects,      \* connect calls made
    schema_list,        \* what list_schemas returned
    ierr           \* the exception raised, None if none

introVars == <<engine, sid, service_name, db_schemas, db_up, ipc, connection,
               open_conns, connects, schema_list, ierr>>

(***************************************************************************)
(* State of _create_connectors_for_engine, the provisioning pipeline. It   *)
(* drives the remote of the ensure calls and an introspector (engine and   *)
(* the variables after it), so those variables are shared.                 *)
(***************************************************************************)
VARIABLES
    connector_scope, \* choose_connector_scope's answer: "SCHEMA" or "DB"
    schema_name,     \* the schema name typed for scope SCHEMA; None otherwise
    connector_type,  \* choose_oracle_connector_type's answer; None for MSSQL
    connectors,      \* the remote's database connectors: [connectorName,
                     \*   databaseConnectorId, environmentId]
    ppc,             \* the pipeline's position
    app_id,          \* ensure_application's result; 0 until assigned
    env_id,          \* ensure_environment's result; 0 until assigned
    schemas,         \* the list the for loop iterates over
    si,              \* position of the loop in schemas
    connector_id,    \* the loop's connector_id; 0 until assigned
    ruleset_id,      \* the loop's ruleset_id; 0 until assigned
    tables,          \* the loop's tables
    calls,           \* the requests of the loop, in order, with the remote's
                     \*   kind of answer: [op, schema, resp, body]
    perr             \* how the pipeline ended early, None otherwise

pipeVars == <<connector_scope, schema_name, connector_type, connectors, ppc,
              app_id, env_id, schemas, si, connector_id, ruleset_id, tables,
              calls, perr>>

vars == <<schedVars, ensureVars, introVars, pipeVars>>

\* The variables each component leaves alone.
notSched == <<ensureVars, introVars, pipeVars>>
notEnsure == <<schedVars, introVars, pipeVars>>
notIntro == <<schedVars, ensureVars, pipeVars>>

\* The integer ids of a job list.
IdsOf(js) == {IntOf(js[i]) : i \in 1 .. Len(js)}

\* Status branches that do not know ERROR.
MutantLogged(status) ==
    IF status \in {"SUCCEEDED", "FAILED", "CANCELLED"} THEN status ELSE None

\* What the status branches of the two polling loops log for a status, None
\* for a status that keeps the execution polled.
Logged(status) ==
    CASE status = "SUCCEEDED" -> "SUCCEEDED"
      [] status \in {"FAILED", "ERROR"} -> "FAILED"
      [] status = "CANCELLED" -> "CANCELLED"
      [] OTHER -> None

\* A slot test that admits one execution too many.
MutantHasSlot(run, mp) == Len(run) <= mp

\* A slot test that keeps one execution at a time, whatever max_parallel is.
MutantHasSlotOne(run, mp) == Len(run) < 1

\* len(running) < max_parallel
HasSlot(run, mp) == Len(run) < mp

\* One more in-progress answer counted, up to MaxPolls.
CountPoll(n) == IF n < MaxPolls THEN n + 1 ELSE n

\* An error handling that swallows the error and goes on where it was.
MutantOnRemoteError(at) == at

\* Where the scheduler is after a client call raised CEError at position at:
\* neither scheduling function has a try/except, so the error leaves it.
OnRemoteError(at) == "raised"

\* A serial loop that stops at the first job that did not succeed.
MutantAfterJob(logged) == IF logged = "SUCCEEDED" THEN "ser" ELSE "done"

\* Where the serial loop is after a job was logged terminal: every terminal
\* branch of _run_single_profile_job breaks and returns nothing, and the for
\* loop goes to the next job.
AfterJob(logged) == "ser"

\* last_status before any status call.
NoPoll == [executionId |-> 0, status |-> ""]

\* last_status after a status call on execution eid that read status st.
StatusRead(eid, st) ==
    IF track_status THEN [executionId |-> eid, status |-> st] ELSE last_status

\* The id the remote gives the next execution.
NextExecutionId == Len(started) + 1

SchedInit ==
    /\ jobs \in DistinctSeqs(JobIds, MaxJobs)
    /\ scope \in {"SINGLE", "ALL"}
    /\ faults \in BOOLEAN
    /\ mode \in IF scope = "ALL" /\ jobs # <<>> THEN {"1", "2"} ELSE {None}
    /\ parallel_str \in IF mode = "2" THEN ParallelInputs ELSE {NotAsked}
    /\ sel_id \in IF scope = "SINGLE" /\ jobs # <<>>
                  THEN {IntOf(j) : j \in JobIds} ELSE {None}
    /\ pc = "list"
    /\ max_parallel = 0
    /\ pending = <<>>
    /\ index = 0
    /\ running = <<>>
    /\ pollq = <<>>
    /\ exec_id = 0
    /\ started = <<>>
    /\ term = {}
    /\ polls = 0
    /\ outcome = None
    /\ track_status = FALSE
    /\ last_status = NoPoll

\* The scheduler's variables outside a scheduler run.
SchedIdle ==
    /\ jobs = <<>>
    /\ scope = None
    /\ faults = FALSE
    /\ mode = None
    /\ parallel_str = NotAsked
    /\ sel_id = None
    /\ pc = "idle"
    /\ max_parallel = 0
    /\ pending = <<>>
    /\ index = 0
    /\ running = <<>>
    /\ pollq = <<>>
    /\ exec_id = 0
    /\ started = <<>>
    /\ term = {}
    /\ polls = 0
    /\ outcome = None
    /\ track_status = FALSE
    /\ last_status = NoPoll

\* jobs = ce.list_profile_jobs_for_env(env_id); if not jobs: return
ListJobs ==
    /\ pc = "list"
    /\ IF NoJobs(jobs)
       THEN pc' = "done" /\ outcome' = "NoJobs"
       ELSE pc' = (IF scope = "SINGLE" THEN "single" ELSE "all") /\ outcome' = outcome
    /\ UNCHANGED <<track_status, last_status>>
    /\ UNCHANGED <<jobs, scope, mode, parallel_str, sel_id, faults, max_parallel,
                   pending, index, running, pollq, exec_id, started, term, polls>>
    /\ UNCHANGED notSched

\* Single mode. The listing loop sorts with key=lambda x: int(j[...]); j is
\* the loop variable, not yet bound when sorted() calls the key on the first
\* element of the (non-empty) list, so the call raises NameError. main()
\* catches CEError, OracleDBError, MSSQLDBError and ValueError only.
SingleListing ==
    /\ pc = "single"
    /\ Len(jobs) > 0
    /\ pc' = "crashed"
    /\ outcome' = "NameError"
    /\ UNCHANGED <<track_status, last_status>>
    /\ UNCHANGED <<jobs, scope, mode, parallel_str, sel_id, faults, max_parallel,
                   pending, index, running, pollq, exec_id, started, term, polls>>
    /\ UNCHANGED notSched

\* ALL mode: the run-mode prompt; parallel parses and clamps max_parallel and
\* enters _run_profile_jobs_parallel, serial sorts and starts the for loop.
ChooseRunMode ==
    /\ pc = "all"
    /\ pending' = SortedJobs(jobs)
    /\ index' = 0
    /\ running' = <<>>
    /\ IF mode = "2"
       THEN /\ max_parallel' = Clamp(Clamp(ParseParallel(parallel_str)))
            /\ pc' = "par"
       ELSE /\ max_parallel' = max_parallel
            /\ pc' = "ser"
    /\ UNCHANGED <<track_status, last_status>>
    /\ UNCHANGED <<jobs, scope, mode, parallel_str, sel_id, faults, pollq,
                   exec_id, started, term, polls, outcome>>
    /\ UNCHANGED notSched

\* The inner while of _run_profile_jobs_parallel: one start_profile_execution.
ParSubmit ==
    /\ pc = "par"
    /\ index < Len(pending)
    /\ HasSlot(running, max_parallel)
    /\ LET job_id == IntOf(pending[index + 1]) IN
       /\ started' = Append(started, job_id)
       /\ \/ /\ running' = Append(running, [jobId |-> job_id,
                                            executionId |-> NextExecutionId])
             /\ index' = index + 1
             /\ UNCHANGED <<pc, outcome>>
          \/ /\ faults
             /\ pc' = OnRemoteError(pc)
             /\ outcome' = "CEError"
             /\ UNCHANGED <<running, index>>
    /\ UNCHANGED <<track_status, last_status>>
    /\ UNCHANGED <<jobs, scope, mode, parallel_str, sel_id, faults, max_parallel,
                   pending, pollq, exec_id, term, polls>>
    /\ UNCHANGED notSched

\* time.sleep(5), then the snapshot list(running) of the poll pass.
ParSleep ==
    /\ pc = "par"
    /\ ~(index < Len(pending) /\ HasSlot(running, max_parallel))
    /\ running # <<>>
    /\ pollq' = running
    /\ pc' = "poll"
    /\ UNCHANGED <<track_status, last_status>>
    /\ UNCHANGED <<jobs, scope, mode, parallel_str, sel_id, faults, max_parallel,
                   pending, index, running, exec_id, started, term, polls, outcome>>
    /\ UNCHANGED notSched

\* One get_execution_status of the poll pass and its status branches.
ParPoll ==
    /\ pc = "poll"
    /\ pollq # <<>>
    /\ LET item == Head(pollq) IN
       \/ \E status \in Statuses :
            /\ IF Logged(status) # None
               THEN /\ running' = Remove(running, item)
                    /\ term' = term \cup {[jobId |-> item.jobId,
                                           executionId |-> item.executionId,
                                           logged |-> Logged(status)]}
                    /\ polls' = polls
               ELSE /\ polls' = CountPoll(polls)
                    /\ UNCHANGED <<running, term>>
            /\ pollq' = Tail(pollq)
            /\ pc' = IF Tail(pollq) = <<>> THEN "par" ELSE "poll"
            /\ outcome' = outcome
            /\ last_status' = StatusRead(item.executionId, status)
       \/ /\ faults
          /\ pc' = OnRemoteError(pc)
          /\ outcome' = "CEError"
          /\ UNCHANGED <<running, term, polls, pollq, last_status>>
    /\ UNCHANGED track_status
    /\ UNCHANGED <<jobs, scope, mode, parallel_str, sel_id, faults, max_parallel,
                   pending, index, exec_id, started>>
    /\ UNCHANGED notSched

\* The outer while ends (or the "if not running: break" guard fires).
ParReturn ==
    /\ pc = "par"
    /\ ~(index < Len(pending) /\ HasSlot(running, max_parallel))
    /\ running = <<>>
    /\ pc' = "done"
    /\ outcome' = "returned"
    /\ UNCHANGED <<track_status, last_status>>
    /\ UNCHANGED <<jobs, scope, mode, parallel_str, sel_id, faults, max_parallel,
                   pending, index, running, pollq, exec_id, started, term, polls>>
    /\ UNCHANGED notSched

\* Serial mode: _run_single_profile_job starts the next job of the sorted list.
SerStart ==
    /\ pc = "ser"
    /\ index < Len(pending)
    /\ started' = Append(started, IntOf(pending[index + 1]))
    /\ \/ /\ exec_id' = NextExecutionId
          /\ pc' = "ser_poll"
          /\ outcome' = outcome
       \/ /\ faults
          /\ pc' = OnRemoteError(pc)
          /\ outcome' = "CEError"
          /\ exec_id' = exec_id
    /\ UNCHANGED <<track_status, last_status>>
    /\ UNCHANGED <<jobs, scope, mode, parallel_str, sel_id, faults, max_parallel,
                   pending, index, running, pollq, term, polls>>
    /\ UNCHANGED notSched

\* One turn of _run_single_profile_job's while True: a status call, then
\* break on a terminal status or time.sleep(5).
SerPoll ==
    /\ pc = "ser_poll"
    /\ \/ \E status \in Statuses :
            /\ IF Logged(status) # None
               THEN /\ term' = term \cup {[jobId |-> IntOf(pending[index + 1]),
                                           executionId |-> exec_id,
                                           logged |-> Logged(status)]}
                    /\ exec_id' = 0
                    /\ index' = index + 1
                    /\ pc' = AfterJob(Logged(status))
                    /\ polls' = polls
               ELSE /\ polls' = CountPoll(polls)
                    /\ UNCHANGED <<term, exec_id, index, pc>>
            /\ outcome' = outcome
            /\ last_status' = StatusRead(exec_id, status)
       \/ /\ faults
          /\ pc' = OnRemoteError(pc)
          /\ outcome' = "CEError"
          /\ UNCHANGED <<term, exec_id, index, polls, last_status>>
    /\ UNCHANGED track_status
    /\ UNCHANGED <<jobs, scope, mode, parallel_str, sel_id, faults, max_parallel,
                   pending, running, pollq, started>>
    /\ UNCHANGED notSched

\* The serial for loop is exhausted.
SerReturn ==
    /\ pc = "ser"
    /\ index >= Len(pending)
    /\ pc' = "done"
    /\ outcome' = "returned"
    /\ UNCHANGED <<track_status, last_status>>
    /\ UNCHANGED <<jobs, scope, mode, parallel_str, sel_id, faults, max_parallel,
                   pending, index, running, pollq, exec_id, started, term, polls>>
    /\ UNCHANGED notSched

SchedNext ==
    \/ ListJobs
    \/ SingleListing
    \/ ChooseRunMode
    \/ ParSubmit
    \/ ParSleep
    \/ ParPoll
    \/ ParReturn
    \/ SerStart
    \/ SerPoll
    \/ SerReturn

(***************************************************************************)
(* CEClient.ensure_application and ensure_environment against the remote.  *)
(***************************************************************************)
\* Most ensure calls the client makes in one run.
MaxEnsureCalls == 2

AppNames == {"HR", "hr"}
EnvNames == {"DEV", "dev"}

\* Ids the remote hands out, as it sends them (decimal digit strings).
AppIdPool == {<<7>>, <<1, 2>>, <<2, 0>>}
EnvIdPool == {<<4>>, <<5>>, <<3, 1>>}

\* Remote states the client may meet: application names are unique, every
\* environment belongs to an application that exists, and (application,
\* name) is unique among environments.
InitialApps ==
    SUBSET {[applicationId |-> <<7>>, applicationName |-> "HR"],
            [applicationId |-> <<1, 2>>, applicationName |-> "hr"]}
InitialEnvs(as) ==
    SUBSET {e \in {[environmentId |-> <<4>>, environmentName |-> "DEV",
                    applicationId |-> 7, purpose |-> "MASK"],
                   [environmentId |-> <<5>>, environmentName |-> "DEV",
                    applicationId |-> 12, purpose |-> "MASK"]} :
              \E a \in as : IntOf(a.applicationId) = e.applicationId}

\* sorted(apps, key=lambda a: int(a.get("applicationId", 0)))
RECURSIVE SortAppsById(_)
SortAppsById(S) ==
    IF S = {} THEN <<>>
    ELSE LET m == CHOOSE a \in S :
                    \A b \in S : IntOf(a.applicationId) <= IntOf(b.applicationId)
         IN  <<m>> \o SortAppsById(S \ {m})

\* list_applications(): GET /applications, the response list sorted by id.
ListApplications == SortAppsById(apps)

\* A name test that ignores case.
MutantSameName(a, b) ==
    LET fold == [n \in AppNames \cup EnvNames |->
                   CASE n = "hr" -> "HR" [] n = "dev" -> "DEV" [] OTHER -> n]
    IN  fold[a] = fold[b]

\* app.get("applicationName") == name: Python string equality.
SameName(a, b) == a = b

\* A lookup that never finds an application.
MutantFindApplication(listed, name) == [found |-> FALSE, id |-> 0]

\* The for loop of ensure_application: the id of the first listed application
\* with that name.
RECURSIVE FindApplication(_, _)
FindApplication(listed, name) ==
    IF listed = <<>> THEN [found |-> FALSE, id |-> 0]
    ELSE IF SameName(Head(listed).applicationName, name)
         THEN [found |-> TRUE, id |-> IntOf(Head(listed).applicationId)]
         ELSE FindApplication(Tail(listed), name)

\* An environment listing that ignores the application.
MutantListEnvironmentsForApp(appId) == envs

\* list_environments_for_app(app_id): GET /environments with
\* application_id=app_id; the remote answers with that application's.
ListEnvironmentsForApp(appId) == {e \in envs : e.applicationId = appId}

\* The for loop of ensure_environment over the listed environments.
FindEnvironment(listed, env_name) ==
    LET hits == {e \in listed : SameName(e.environmentName, env_name)}
    IN  IF hits = {} THEN [found |-> FALSE, id |-> 0]
        ELSE [found |-> TRUE,
              id |-> IntOf((CHOOSE e \in hits : TRUE).environmentId)]

EnsureInit ==
    /\ apps \in InitialApps
    /\ envs \in InitialEnvs(apps)
    /\ posts = <<>>
    /\ results = <<>>

\* The remote and the client outside an ensure run.
EnsureIdle ==
    /\ apps = {}
    /\ envs = {}
    /\ posts = <<>>
    /\ results = <<>>

\* What one call leaves in results: its arguments, whether it returned (ok)
\* and what, and what the remote held when it was made.
Returned(op, appId, name, existed, ok, id) ==
    [op |-> op, app |-> appId, name |-> name, existed |-> existed,
     ok |-> ok, id |-> id, first |-> Len(posts) + 1,
     creates |-> Len(posts') - Len(posts)]

\* ensure_application(name): list, return the id of the application of that
\* name, else POST /applications and return the new id. Either request may
\* fail (CEError), and a POST answer without applicationId is an error.
DoEnsureApplication(name) ==
    LET hit == FindApplication(ListApplications, name)
        existed == \E a \in apps : a.applicationName = name
    IN  /\ \/ /\ UNCHANGED <<apps, posts>>
              /\ results' = Append(results,
                              Returned("app", 0, name, existed, FALSE, 0))
           \/ /\ hit.found
              /\ UNCHANGED <<apps, posts>>
              /\ results' = Append(results,
                              Returned("app", 0, name, existed, TRUE, hit.id))
           \/ /\ ~hit.found
              /\ posts' = Append(posts, [path |-> "/applications",
                                         payload |-> [applicationName |-> name]])
              /\ \/ \E id \in AppIdPool \ {a.applicationId : a \in apps} :
                      /\ apps' = apps \cup {[applicationId |-> id,
                                             applicationName |-> name]}
                      /\ results' = Append(results,
                             Returned("app", 0, name, existed, TRUE, IntOf(id)))
                 \/ /\ apps' = apps
                    /\ results' = Append(results,
                             Returned("app", 0, name, existed, FALSE, 0))
        /\ UNCHANGED envs

\* ensure_environment(app_id, env_name): the same pattern over the listed
\* environments of the application, creating with purpose "MASK".
DoEnsureEnvironment(appId, env_name) ==
    LET hit == FindEnvironment(ListEnvironmentsForApp(appId), env_name)
        existed == \E e \in envs : /\ e.applicationId = appId
                                   /\ e.environmentName = env_name
        payload == [environmentName |-> env_name, applicationId |-> appId,
                    purpose |-> "MASK"]
    IN  /\ \/ /\ UNCHANGED <<envs, posts>>
              /\ results' = Append(results,
                              Returned("env", appId, env_name, existed, FALSE, 0))
           \/ /\ hit.found
              /\ UNCHANGED <<envs, posts>>
              /\ results' = Append(results,
                              Returned("env", appId, env_name, existed, TRUE, hit.id))
           \/ /\ ~hit.found
              /\ posts' = Append(posts, [path |-> "/environments",
                                         payload |-> payload])
              /\ \/ \E id \in EnvIdPool \ {e.environmentId : e \in envs} :
                      /\ envs' = envs \cup
                             {[environmentId |-> id,
                               environmentName |-> payload.environmentName,
                               applicationId |-> payload.applicationId,
                               purpose |-> payload.purpose]}
                      /\ results' = Append(results,
                             Returned("env", appId, env_name, existed, TRUE,
                                      IntOf(id)))
                 \/ /\ envs' = envs
                    /\ results' = Append(results,
                             Returned("env", appId, env_name, existed, FALSE, 0))
        /\ UNCHANGED apps

\* The client calls ensure_application with some name.
EnsureApplication ==
    /\ Len(results) < MaxEnsureCalls
    /\ \E name \in AppNames : DoEnsureApplication(name)
    /\ UNCHANGED notEnsure

\* The client calls ensure_environment with the id of an application of the
\* remote (main.py passes ensure_application's result) and some name.
EnsureEnvironment ==
    /\ Len(results) < MaxEnsureCalls
    /\ \E appId \in {IntOf(a.applicationId) : a \in apps}, env_name \in EnvNames :
         DoEnsureEnvironment(appId, env_name)
    /\ UNCHANGED notEnsure

EnsureNext ==
    \/ EnsureApplication
    \/ EnsureEnvironment

(***************************************************************************)
(* The schema introspectors: OracleDB.__init__ and the list_schemas of     *)
(* OracleDB, MSSQLDB and PostgresDB.                                       *)
(***************************************************************************)
\* system_schemas of OracleDB.list_schemas.
OracleSystemSchemas ==
    {"ANONYMOUS", "APEX_040000", "APEX_040200", "APEX_050000",
     "APEX_050100", "APEX_PUBLIC_USER", "APPQOSSYS", "AUDSYS",
     "CTXSYS", "DBSNMP", "DIP", "DVF",
     "DVSYS", "EXFSYS", "FLOWS_FILES", "GSMADMIN_INTERNAL",
     "GSMCATUSER", "GSMUSER", "HR", "IX",
     "LBACSYS", "MDDATA", "MDSYS", "OE",
     "OLAPSYS", "ORACLE_OCM", "ORDDATA", "ORDPLUGINS",
     "ORDSYS", "OUTLN", "OWBSYS", "PM",
     "SCOTT", "SH", "SI_INFORMTN_SCHEMA", "SPATIAL_CSW_ADMIN_USR",
     "SPATIAL_WFS_ADMIN_USR", "SYS", "SYSBACKUP", "SYSDG",
     "SYSKM", "SYSMAN", "SYSTEM", "WKPROXY",
     "WKSYS", "WK_TEST", "WMSYS", "XDB",
     "XS$NULL", "OPS$ORACLE"}

\* The names excluded by MSSQLDB.list_schemas' WHERE clause.
MSSQLSystemSchemas == {"sys", "INFORMATION_SCHEMA"}

\* Schema names a database of each engine may hold.
SchemaUniverse ==
    [ORACLE |-> {"APP", "HR", "SALES", "SYS"},
     MSSQL |-> {"dbo", "Sales", "sys", "INFORMATION_SCHEMA"},
     POSTGRES |-> {"public", "pg_catalog", "pgbench", "information_schema"}]

\* The characters (code points) of each name.
NameChars ==
    ("APP" :> <<65, 80, 80>> @@
     "HR" :> <<72, 82>> @@
     "SALES" :> <<83, 65, 76, 69, 83>> @@
     "SYS" :> <<83, 89, 83>> @@
     "dbo" :> <<100, 98, 111>> @@
     "Sales" :> <<83, 97, 108, 101, 115>> @@
     "sys" :> <<115, 121, 115>> @@
     "INFORMATION_SCHEMA" :> <<73, 78, 70, 79, 82, 77, 65, 84, 73, 79, 78, 95, 83, 67, 72, 69, 77, 65>> @@
     "public" :> <<112, 117, 98, 108, 105, 99>> @@
     "pg_catalog" :> <<112, 103, 95, 99, 97, 116, 97, 108, 111, 103>> @@
     "pgbench" :> <<112, 103, 98, 101, 110, 99, 104>> @@
     "app" :> <<97, 112, 112>> @@
     "information_schema" :> <<105, 110, 102, 111, 114, 109, 97, 116, 105, 111, 110, 95, 115, 99, 104, 101, 109, 97>>)

\* String comparison by code point: s < t.
RECURSIVE SeqLess(_, _)
SeqLess(s, t) ==
    IF t = <<>> THEN FALSE
    ELSE IF s = <<>> THEN TRUE
    ELSE IF Head(s) < Head(t) THEN TRUE
    ELSE IF Head(s) > Head(t) THEN FALSE
    ELSE SeqLess(Tail(s), Tail(t))

LexLess(a, b) == SeqLess(NameChars[a], NameChars[b])

\* SQL LIKE: in the pattern, % (37) matches any run of characters and
\* _ (95) any one character.
RECURSIVE Like(_, _)
Like(pattern, s) ==
    IF pattern = <<>> THEN s = <<>>
    ELSE IF Head(pattern) = 37
         THEN Like(Tail(pattern), s) \/ (s # <<>> /\ Like(pattern, Tail(s)))
    ELSE /\ s # <<>>
         /\ (Head(pattern) = 95 \/ Head(pattern) = Head(s))
         /\ Like(Tail(pattern), Tail(s))

\* The pattern 'pg_%' of PostgresDB.list_schemas.
PgPattern == <<112, 103, 95, 37>>

\* A query without its ORDER BY: the rows come in some other order.
RECURSIVE MutantOrderBy(_)
MutantOrderBy(S) ==
    IF S = {} THEN <<>>
    ELSE LET m == CHOOSE a \in S : \A b \in S : a = b \/ LexLess(b, a)
         IN  <<m>> \o MutantOrderBy(S \ {m})

\* ORDER BY <name column> over the selected rows (binary collation).
RECURSIVE OrderBy(_)
OrderBy(S) ==
    IF S = {} THEN <<>>
    ELSE LET m == CHOOSE a \in S : \A b \in S : a = b \/ LexLess(a, b)
         IN  <<m>> \o OrderBy(S \ {m})

\* [r for r in rows if r not in system_schemas]
RECURSIVE FilterSystem(_)
FilterSystem(rows) ==
    IF rows = <<>> THEN <<>>
    ELSE IF Head(rows) \notin OracleSystemSchemas
         THEN <<Head(rows)>> \o FilterSystem(Tail(rows))
         ELSE FilterSystem(Tail(rows))

\* OracleDB.list_schemas: SELECT DISTINCT OWNER FROM ALL_TABLES ORDER BY
\* OWNER, then the filter.
OracleListSchemasResult(owners) == FilterSystem(OrderBy(owners))

\* MSSQLDB.list_schemas: SELECT name FROM sys.schemas WHERE name NOT IN
\* ('sys','INFORMATION_SCHEMA') ORDER BY name.
MSSQLListSchemasResult(names) ==
    OrderBy({n \in names : n \notin MSSQLSystemSchemas})

\* PostgresDB.list_schemas: SELECT nspname FROM pg_catalog.pg_namespace WHERE
\* nspname NOT LIKE 'pg_%' AND nspname != 'information_schema' ORDER BY nspname.
PostgresListSchemasResult(names) ==
    OrderBy({n \in names : /\ ~Like(PgPattern, NameChars[n])
                           /\ n # "information_schema"})

\* A test for "is set" that takes the empty string for a value.
MutantTruthy(v) == v # None

\* Python truth of an Optional[str]: None and "" are false.
Truthy(v) == v # None /\ v # ""

IntroInit ==
    /\ engine \in {"ORACLE", "MSSQL", "POSTGRES"}
    /\ sid \in IF engine = "ORACLE" THEN {None, "", "ORAMASK"} ELSE {None}
    /\ service_name \in IF engine = "ORACLE" THEN {None, "", "appservice"}
                        ELSE {None}
    /\ db_schemas \in SUBSET SchemaUniverse[engine]
    /\ db_up \in BOOLEAN
    /\ ipc = "new"
    /\ connection = None
    /\ open_conns = 0
    /\ connects = 0
    /\ schema_list = <<>>
    /\ ierr = None

\* The introspector's variables outside an introspection run.
IntroIdle ==
    /\ engine = None
    /\ sid = None
    /\ service_name = None
    /\ db_schemas = {}
    /\ db_up = FALSE
    /\ ipc = "idle"
    /\ connection = None
    /\ open_conns = 0
    /\ connects = 0
    /\ schema_list = <<>>
    /\ ierr = None

\* OracleDB.__init__ (thin mode): the SID/SERVICE_NAME checks, then
\* oracledb.connect; the connection is kept in self.connection.
OracleConstruct ==
    /\ engine = "ORACLE"
    /\ ipc = "new"
    /\ IF Truthy(sid) /\ Truthy(service_name)
       THEN /\ ierr' = "OracleDBError: both SID and SERVICE_NAME"
            /\ ipc' = "failed"
            /\ UNCHANGED <<connection, open_conns, connects>>
       ELSE IF ~Truthy(sid) /\ ~Truthy(service_name)
       THEN /\ ierr' = "OracleDBError: neither SID nor SERVICE_NAME"
            /\ ipc' = "failed"
            /\ UNCHANGED <<connection, open_conns, connects>>
       ELSE /\ connects' = connects + 1
            /\ IF db_up
               THEN /\ connection' = "open"
                    /\ open_conns' = open_conns + 1
                    /\ ipc' = "ready"
                    /\ ierr' = ierr
               ELSE /\ ierr' = "OracleDBError: failed to connect"
                    /\ ipc' = "failed"
                    /\ UNCHANGED <<connection, open_conns>>
    /\ UNCHANGED <<engine, sid, service_name, db_schemas, db_up, schema_list>>
    /\ UNCHANGED notIntro

\* MSSQLDB.__init__ and PostgresDB.__init__ only store their arguments.
PlainConstruct ==
    /\ engine \in {"MSSQL", "POSTGRES"}
    /\ ipc = "new"
    /\ ipc' = "ready"
    /\ UNCHANGED <<engine, sid, service_name, db_schemas, db_up, connection,
                   open_conns, connects, schema_list, ierr>>
    /\ UNCHANGED notIntro

\* OracleDB.list_schemas: a cursor on self.connection.
OracleListSchemas ==
    /\ engine = "ORACLE"
    /\ ipc = "ready"
    /\ schema_list' = OracleListSchemasResult(db_schemas)
    /\ ipc' = "listed"
    /\ UNCHANGED <<engine, sid, service_name, db_schemas, db_up, connection,
                   open_conns, connects, ierr>>
    /\ UNCHANGED notIntro

\* list_schemas of MSSQLDB and PostgresDB: connect(), the query, and
\* conn.close() in the finally clause.
PlainListSchemas ==
    /\ engine \in {"MSSQL", "POSTGRES"}
    /\ ipc = "ready"
    /\ connects' = connects + 1
    /\ IF db_up
       THEN /\ schema_list' = (IF engine = "MSSQL"
                          THEN MSSQLListSchemasResult(db_schemas)
                          ELSE PostgresListSchemasResult(db_schemas))
            /\ ipc' = "listed"
            /\ ierr' = ierr
       ELSE /\ ierr' = (IF engine = "MSSQL" THEN "MSSQLDBError: failed to connect"
                        ELSE "PostgresDBError: failed to connect")
            /\ ipc' = "failed"
            /\ schema_list' = schema_list
    /\ UNCHANGED <<engine, sid, service_name, db_schemas, db_up, connection,
                   open_conns>>
    /\ UNCHANGED notIntro

IntroNext ==
    \/ OracleConstruct
    \/ PlainConstruct
    \/ OracleListSchemas
    \/ PlainListSchemas

(***************************************************************************)
(* The provisioning pipeline: _create_connectors_for_engine and the        *)
(* CEClient calls of its loop.                                             *)
(***************************************************************************)
\* The application and environment names the operator typed.
PipeAppName == "HR"
PipeEnvName == "DEV"

\* What the operator may type at "Schema name to use for connector".
TypedSchemaNames ==
    [ORACLE |-> {"app", "SALES", "HR"}, MSSQL |-> {"dbo", "Sales", "sys"}]

\* Table lists a schema may hold, as ORDER BY TABLE_NAME returns them.
TableLists == {<<>>, <<"DEPT", "EMP">>}

\* str.upper() on one character, and on a name.
ToUpper(c) == IF c \in 97 .. 122 THEN c - 32 ELSE c
Upper(n) ==
    LET u == [i \in 1 .. Len(NameChars[n]) |-> ToUpper(NameChars[n][i])]
    IN  CHOOSE m \in DOMAIN NameChars : NameChars[m] = u

\* f"CONNECTOR_{schema}"
ConnectorName(schema) == <<"CONNECTOR_", schema>>

\* Connectors the remote may already hold for environment 4.
InitialConnectors(e) ==
    LET names == IF e = "ORACLE" THEN <<"APP", "SALES">> ELSE <<"Sales", "dbo">>
    IN  SUBSET {[connectorName |-> ConnectorName(names[i]),
                 databaseConnectorId |-> <<2, i>>,
                 environmentId |-> 4] : i \in 1 .. 2}

\* list_connectors_for_env(env_id): GET /database-connectors with
\* environment_id=env_id.
ListConnectorsForEnv(eid) == {c \in connectors : c.environmentId = eid}

\* A lookup that never finds a connector.
MutantFindConnectorByName(listed, name) == [found |-> FALSE, id |-> 0]

\* find_connector_by_name's loop over the listed connectors.
FindConnectorByName(listed, name) ==
    LET hits == {c \in listed : c.connectorName = name}
    IN  IF hits = {} THEN [found |-> FALSE, id |-> 0]
        ELSE [found |-> TRUE,
              id |-> IntOf((CHOOSE c \in hits : TRUE).databaseConnectorId)]

\* The payload of the create_connector_* call the loop makes for a schema.
ConnectorPayload(schema) ==
    IF engine = "MSSQL"
    THEN [connectorName |-> ConnectorName(schema), databaseType |-> "MSSQL",
          environmentId |-> env_id, schemaName |-> schema, jdbcDriverId |-> 2]
    ELSE IF connector_type = "JDBC"
    THEN [connectorName |-> ConnectorName(schema), databaseType |-> "ORACLE",
          environmentId |-> env_id, schemaName |-> schema,
          jdbc |-> <<"jdbc:oracle:thin:@//host:port/",
                     IF Truthy(service_name) THEN service_name ELSE sid>>]
    ELSE [connectorName |-> ConnectorName(schema), databaseType |-> "ORACLE",
          environmentId |-> env_id, schemaName |-> schema,
          sid |-> IF Truthy(sid) THEN sid ELSE ""]

\* The number of requests of one operation sent so far that were answered ok.
Created(op) ==
    Cardinality({k \in 1 .. Len(calls) : calls[k].op = op /\ calls[k].resp = "ok"})

\* A bulk add that sends its request whatever the list.
MutantBulkTableUpdate(rs_id, table_names) ==
    <<[method |-> "PUT", ruleset |-> rs_id,
       tableMetadata |-> [i \in 1 .. Len(table_names) |->
                            [tableName |-> table_names[i], rulesetId |-> rs_id]]]>>

\* bulk_add_tables_to_ruleset(ruleset_id, table_names): the requests it
\* sends. None for an empty list; else one PUT on
\* /database-rulesets/{ruleset_id}/bulk-table-update.
BulkTableUpdate(rs_id, table_names) ==
    IF table_names = <<>> THEN <<>>
    ELSE <<[method |-> "PUT", ruleset |-> rs_id,
            tableMetadata |-> [i \in 1 .. Len(table_names) |->
                                 [tableName |-> table_names[i],
                                  rulesetId |-> rs_id]]]>>

\* A pipeline that goes on to its next statement whatever a call did.
MutantAfterCall(ok, next) == next

\* Where the pipeline stands after a call: at its next statement, or out of
\* the function with the call's exception, which nothing there catches.
AfterCall(ok, next) == IF ok THEN next ELSE "raised"

\* A membership test that finds every name.
MutantContains(list, x) == TRUE

\* x in list
Contains(list, x) == \E i \in 1 .. Len(list) : list[i] = x

\* A create_profile_job that raises on every answer without a job id.
MutantProfileJobRaises(resp) == resp # "ok"

\* Whether create_profile_job raises for an answer: _request raises CEError on
\* an HTTP error; an answer without profileJobId is logged and None returned.
ProfileJobRaises(resp) == resp = "http_error"

\* A loop body that goes from the ruleset straight to the profile job.
MutantAfterStep(step) == "job"

\* The statement after a statement of the loop body's tail: create_ruleset,
\* list_tables_for_schema, bulk_add_tables_to_ruleset, create_profile_job.
AfterStep(step) ==
    CASE step = "ruleset" -> "tables"
      [] step = "tables" -> "bulk"
      [] step = "bulk" -> "job"

\* One entry of the call log.
Call(op, schema, resp, body) ==
    [op |-> op, schema |-> schema, resp |-> resp, body |-> body]

\* The state at the call of _create_connectors_for_engine: the operator's
\* answers, a remote, and a database. prepare_oracle_config returns exactly
\* one of sid and service_name.
PipeInit ==
    /\ engine \in {"ORACLE", "MSSQL"}
    /\ \E cfg \in IF engine = "ORACLE"
                  THEN {<<"ORAMASK", None>>, <<None, "appservice">>}
                  ELSE {<<None, None>>} :
         /\ sid = cfg[1]
         /\ service_name = cfg[2]
    /\ connector_type \in IF engine = "ORACLE" THEN {"NATIVE", "JDBC"}
                          ELSE {None}
    /\ connector_scope \in {"SCHEMA", "DB"}
    /\ schema_name \in IF connector_scope = "SCHEMA"
                       THEN TypedSchemaNames[engine] ELSE {None}
    /\ db_schemas \in SUBSET SchemaUniverse[engine]
    /\ db_up \in BOOLEAN
    /\ apps \in SUBSET {[applicationId |-> <<7>>, applicationName |-> "HR"]}
    /\ envs \in InitialEnvs(apps)
    /\ connectors \in IF envs = {} THEN {{}} ELSE InitialConnectors(engine)
    /\ posts = <<>>
    /\ results = <<>>
    /\ ipc = "idle"
    /\ connection = None
    /\ open_conns = 0
    /\ connects = 0
    /\ schema_list = <<>>
    /\ ierr = None
    /\ ppc = "ensure_app"
    /\ app_id = 0
    /\ env_id = 0
    /\ schemas = <<>>
    /\ si = 0
    /\ connector_id = 0
    /\ ruleset_id = 0
    /\ tables = <<>>
    /\ calls = <<>>
    /\ perr = None

\* The pipeline's variables outside a pipeline run.
PipeIdle ==
    /\ connector_scope = None
    /\ schema_name = None
    /\ connector_type = None
    /\ connectors = {}
    /\ ppc = "idle"
    /\ app_id = 0
    /\ env_id = 0
    /\ schemas = <<>>
    /\ si = 0
    /\ connector_id = 0
    /\ ruleset_id = 0
    /\ tables = <<>>
    /\ calls = <<>>
    /\ perr = None

\* app_id = ce.ensure_application(app_name); a CEError leaves the function.
PipeEnsureApplication ==
    /\ ppc = "ensure_app"
    /\ DoEnsureApplication(PipeAppName)
    /\ LET r == results'[Len(results')]
       IN  /\ app_id' = (IF r.ok THEN r.id ELSE app_id)
           /\ ppc' = AfterCall(r.ok, "ensure_env")
           /\ perr' = (IF r.ok THEN perr ELSE "CEError")
    /\ UNCHANGED <<connector_scope, schema_name, connector_type, connectors,
                   env_id, schemas, si, connector_id, ruleset_id, tables,
                   calls>>
    /\ UNCHANGED <<schedVars, introVars>>

\* env_id = ce.ensure_environment(app_id, env_name); then the introspector
\* of the engine is about to be constructed.
PipeEnsureEnvironment ==
    /\ ppc = "ensure_env"
    /\ DoEnsureEnvironment(app_id, PipeEnvName)
    /\ LET r == results'[Len(results')]
       IN  /\ env_id' = (IF r.ok THEN r.id ELSE env_id)
           /\ ppc' = AfterCall(r.ok, "introspect")
           /\ ipc' = (IF ppc' = "introspect" THEN "new" ELSE ipc)
           /\ perr' = (IF r.ok THEN perr ELSE "CEError")
    /\ UNCHANGED <<connector_scope, schema_name, connector_type, connectors,
                   app_id, schemas, si, connector_id, ruleset_id, tables,
                   calls>>
    /\ UNCHANGED <<engine, sid, service_name, db_schemas, db_up, connection,
                   open_conns, connects, schema_list, ierr>>
    /\ UNCHANGED schedVars

\* The constructor or list_schemas raised: the error leaves the function.
PipeIntrospectFailed ==
    /\ ppc = "introspect"
    /\ ipc = "failed"
    /\ ppc' = "raised"
    /\ perr' = ierr
    /\ ipc' = "idle"
    /\ UNCHANGED <<connector_scope, schema_name, connector_type, connectors,
                   app_id, env_id, schemas, si, connector_id, ruleset_id,
                   tables, calls>>
    /\ UNCHANGED <<engine, sid, service_name, db_schemas, db_up, connection,
                   open_conns, connects, schema_list, ierr>>
    /\ UNCHANGED <<schedVars, ensureVars>>

\* schemas = db.list_schemas() has returned; for scope SCHEMA the typed name
\* (upper-cased for Oracle) must be in it and becomes the whole list, else
\* the function logs an error and returns. Then the for loop begins.
PipeChooseSchemas ==
    /\ ppc = "introspect"
    /\ ipc = "listed"
    /\ ipc' = "idle"
    /\ si' = 1
    /\ IF connector_scope = "SCHEMA"
       THEN LET wanted == IF engine = "ORACLE" THEN Upper(schema_name)
                          ELSE schema_name
            IN  IF Contains(schema_list, wanted)
                THEN /\ schemas' = <<wanted>>
                     /\ ppc' = "find"
                     /\ perr' = perr
                ELSE /\ schemas' = schema_list
                     /\ ppc' = "done"
                     /\ perr' = "schema not found"
       ELSE /\ schemas' = schema_list
            /\ ppc' = (IF schema_list = <<>> THEN "done" ELSE "find")
            /\ perr' = perr
    /\ UNCHANGED <<connector_scope, schema_name, connector_type, connectors,
                   app_id, env_id, connector_id, ruleset_id, tables, calls>>
    /\ UNCHANGED <<engine, sid, service_name, db_schemas, db_up, connection,
                   open_conns, connects, schema_list, ierr>>
    /\ UNCHANGED <<schedVars, ensureVars>>

\* The variables of the pipeline that the loop body never assigns.
pipeInputs == <<connector_scope, schema_name, connector_type, app_id, env_id,
                schemas>>

\* What the loop leaves alone of the other components.
loopFrame == <<schedVars, ensureVars, engine, sid, service_name, db_schemas,
               db_up, ipc, connection, open_conns, schema_list, ierr>>

\* existing_id = ce.find_connector_by_name(env_id, connector_name)
PipeFindConnector ==
    /\ ppc = "find"
    /\ LET schema == schemas[si]
           hit == FindConnectorByName(ListConnectorsForEnv(env_id),
                                      ConnectorName(schema))
       IN  \/ /\ calls' = Append(calls, Call("find_connector", schema, "ok",
                                              ConnectorName(schema)))
              /\ IF hit.found
                 THEN /\ connector_id' = hit.id
                      /\ ppc' = "ruleset"
                 ELSE /\ connector_id' = connector_id
                      /\ ppc' = "create"
              /\ perr' = perr
           \/ /\ calls' = Append(calls, Call("find_connector", schema,
                                              "http_error",
                                              ConnectorName(schema)))
              /\ connector_id' = connector_id
              /\ ppc' = "raised"
              /\ perr' = "CEError"
    /\ UNCHANGED <<pipeInputs, connectors, si, ruleset_id, tables, connects>>
    /\ UNCHANGED loopFrame

\* connector_id = ce.create_connector_*(...): POST /database-connectors. An
\* HTTP error and an answer without databaseConnectorId both raise CEError
\* (self._error), which nothing in the function catches; the test
\* "connector_id is None" after the call is never true.
PipeCreateConnector ==
    /\ ppc = "create"
    /\ LET schema == schemas[si]
           id == <<4, Cardinality(connectors) + 1>>
       IN  \E resp \in {"ok", "no_id", "http_error"} :
             /\ calls' = Append(calls, Call("create_connector", schema, resp,
                                            ConnectorPayload(schema)))
             /\ IF resp = "ok"
                THEN /\ connectors' = connectors \cup
                          {[connectorName |-> ConnectorName(schema),
                            databaseConnectorId |-> id,
                            environmentId |-> env_id]}
                     /\ connector_id' = IntOf(id)
                     /\ ppc' = "ruleset"
                     /\ perr' = perr
                ELSE /\ connectors' = connectors
                     /\ connector_id' = connector_id
                     /\ ppc' = "raised"
                     /\ perr' = "CEError"
    /\ UNCHANGED <<pipeInputs, si, ruleset_id, tables, connects>>
    /\ UNCHANGED loopFrame

\* ruleset_id = ce.create_ruleset(connector_id, schema): POST
\* /database-rulesets; no id in the answer is a CEError.
PipeCreateRuleset ==
    /\ ppc = "ruleset"
    /\ LET schema == schemas[si]
           id == <<6, Created("create_ruleset") + 1>>
       IN  \E resp \in {"ok", "no_id", "http_error"} :
             /\ calls' = Append(calls, Call("create_ruleset", schema, resp,
                                   [rulesetName |-> <<"RULESET_", schema>>,
                                    databaseConnectorId |-> connector_id]))
             /\ IF resp = "ok"
                THEN /\ ruleset_id' = IntOf(id)
                     /\ ppc' = AfterStep("ruleset")
                     /\ perr' = perr
                ELSE /\ ruleset_id' = ruleset_id
                     /\ ppc' = "raised"
                     /\ perr' = "CEError"
    /\ UNCHANGED <<pipeInputs, connectors, si, connector_id, tables, connects>>
    /\ UNCHANGED loopFrame

\* tables = db.list_tables_for_schema(schema): OracleDB reads through
\* self.connection, MSSQLDB opens a connection and closes it.
PipeListTables ==
    /\ ppc = "tables"
    /\ \E t \in TableLists : tables' = t
    /\ connects' = (IF engine = "MSSQL" THEN connects + 1 ELSE connects)
    /\ ppc' = AfterStep("tables")
    /\ UNCHANGED <<pipeInputs, connectors, si, connector_id, ruleset_id, calls,
                   perr>>
    /\ UNCHANGED loopFrame

\* ce.bulk_add_tables_to_ruleset(ruleset_id, tables)
PipeBulkAdd ==
    /\ ppc = "bulk"
    /\ LET puts == BulkTableUpdate(ruleset_id, tables)
       IN  IF puts = <<>>
           THEN /\ calls' = calls
                /\ ppc' = AfterStep("bulk")
                /\ perr' = perr
           ELSE \E resp \in {"ok", "http_error"} :
                  /\ calls' = calls \o
                        [k \in 1 .. Len(puts) |->
                           Call("bulk_add", schemas[si], resp, puts[k])]
                  /\ IF resp = "ok"
                     THEN /\ ppc' = AfterStep("bulk")
                          /\ perr' = perr
                     ELSE /\ ppc' = "raised"
                          /\ perr' = "CEError"
    /\ UNCHANGED <<pipeInputs, connectors, si, connector_id, ruleset_id, tables,
                   connects>>
    /\ UNCHANGED loopFrame

\* ce.create_profile_job(ruleset_id, schema, profile_set_id): POST
\* /profile-jobs. No id in the answer is logged and None returned, which the
\* loop ignores; then the next schema, or the end of the function.
PipeCreateProfileJob ==
    /\ ppc = "job"
    /\ LET schema == schemas[si]
       IN  \E resp \in {"ok", "no_id", "http_error"} :
             /\ calls' = Append(calls, Call("create_profile_job", schema, resp,
                                   [jobName |-> <<"PROFILEJOB_", schema>>,
                                    profileSetId |-> 20,
                                    rulesetId |-> ruleset_id]))
             /\ IF ProfileJobRaises(resp)
                THEN /\ ppc' = "raised"
                     /\ perr' = "CEError"
                     /\ si' = si
                ELSE /\ ppc' = (IF si < Len(schemas) THEN "find" ELSE "done")
                     /\ perr' = perr
                     /\ si' = si + 1
    /\ UNCHANGED <<pipeInputs, connectors, connector_id, ruleset_id, tables,
                   connects>>
    /\ UNCHANGED loopFrame

PipeNext ==
    \/ PipeEnsureApplication
    \/ PipeEnsureEnvironment
    \/ OracleConstruct
    \/ PlainConstruct
    \/ OracleListSchemas
    \/ PlainListSchemas
    \/ PipeIntrospectFailed
    \/ PipeChooseSchemas
    \/ PipeFindConnector
    \/ PipeCreateConnector
    \/ PipeCreateRuleset
    \/ PipeListTables
    \/ PipeBulkAdd
    \/ PipeCreateProfileJob

(***************************************************************************)
(* op_run_profile_jobs from its first statement: the two ensure calls,     *)
(* then the listing and the scheduler.                                     *)
(***************************************************************************)
\* What is typed at the "Application name" and "Environment name" prompts.
RunAppName == "HR"
RunEnvName == "DEV"

\* Whether the remote holds the named environment under the named application.
NamedEnvironmentExists ==
    \E a \in apps, e \in envs :
       /\ a.applicationName = RunAppName
       /\ e.environmentName = RunEnvName
       /\ e.applicationId = IntOf(a.applicationId)

\* The state at the call of op_run_profile_jobs: a remote, the operator's
\* answers, and the profile jobs of the named environment, which has none
\* when it does not exist yet.
RunInit ==
    /\ EnsureInit
    /\ IntroIdle
    /\ PipeIdle
    /\ jobs \in DistinctSeqs(JobIds, MaxJobs)
    /\ jobs # <<>> => NamedEnvironmentExists
    /\ scope \in {"SINGLE", "ALL"}
    /\ faults \in BOOLEAN
    /\ mode \in IF scope = "ALL" /\ jobs # <<>> THEN {"1", "2"} ELSE {None}
    /\ parallel_str \in IF mode = "2"
                        THEN {[text |-> "int", val |-> MaxParallel]}
                        ELSE {NotAsked}
    /\ sel_id \in IF scope = "SINGLE" /\ jobs # <<>>
                  THEN {IntOf(jobs[1])} ELSE {None}
    /\ pc = "ensure_app"
    /\ max_parallel = 0
    /\ pending = <<>>
    /\ index = 0
    /\ running = <<>>
    /\ pollq = <<>>
    /\ exec_id = 0
    /\ started = <<>>
    /\ term = {}
    /\ polls = 0
    /\ outcome = None
    /\ track_status = FALSE
    /\ last_status = NoPoll

\* app_id = ce.ensure_application(app_name); a CEError leaves the operation.
RunEnsureApplication ==
    /\ pc = "ensure_app"
    /\ DoEnsureApplication(RunAppName)
    /\ LET r == results'[Len(results')]
       IN  /\ pc' = (IF r.ok THEN "ensure_env" ELSE OnRemoteError(pc))
           /\ outcome' = (IF r.ok THEN outcome ELSE "CEError")
    /\ UNCHANGED <<track_status, last_status>>
    /\ UNCHANGED <<jobs, scope, mode, parallel_str, sel_id, faults, max_parallel,
                   pending, index, running, pollq, exec_id, started, term, polls>>
    /\ UNCHANGED <<introVars, pipeVars>>

\* env_id = ce.ensure_environment(app_id, env_name), with the id the first
\* call returned; then the scope prompt and the listing.
RunEnsureEnvironment ==
    /\ pc = "ensure_env"
    /\ DoEnsureEnvironment(results[Len(results)].id, RunEnvName)
    /\ LET r == results'[Len(results')]
       IN  /\ pc' = (IF r.ok THEN "list" ELSE OnRemoteError(pc))
           /\ outcome' = (IF r.ok THEN outcome ELSE "CEError")
    /\ UNCHANGED <<track_status, last_status>>
    /\ UNCHANGED <<jobs, scope, mode, parallel_str, sel_id, faults, max_parallel,
                   pending, index, running, pollq, exec_id, started, term, polls>>
    /\ UNCHANGED <<introVars, pipeVars>>

RunNext ==
    \/ RunEnsureApplication
    \/ RunEnsureEnvironment
    \/ SchedNext

\* One run of op_run_profile_jobs against a remote.
RunSpec == RunInit /\ [][RunNext]_vars

(***************************************************************************)
(* The scheduler with the status of the last status call kept, for the     *)
(* properties of the polling loops' status branches.                       *)
(***************************************************************************)
StatusInit ==
    /\ EnsureIdle
    /\ IntroIdle
    /\ PipeIdle
    /\ jobs \in DistinctSeqs(JobIds, MaxJobs)
    /\ scope \in {"SINGLE", "ALL"}
    /\ faults = FALSE
    /\ mode \in IF scope = "ALL" /\ jobs # <<>> THEN {"1", "2"} ELSE {None}
    /\ parallel_str \in IF mode = "2"
                        THEN {[text |-> "int", val |-> MaxParallel]}
                        ELSE {NotAsked}
    /\ sel_id \in IF scope = "SINGLE" /\ jobs # <<>>
                  THEN {IntOf(jobs[1])} ELSE {None}
    /\ pc = "list"
    /\ max_parallel = 0
    /\ pending = <<>>
    /\ index = 0
    /\ running = <<>>
    /\ pollq = <<>>
    /\ exec_id = 0
    /\ started = <<>>
    /\ term = {}
    /\ polls = 0
    /\ outcome = None
    /\ track_status = TRUE
    /\ last_status = NoPoll

StatusSpec == StatusInit /\ [][SchedNext]_vars

(***************************************************************************)
(* Specifications                                                          *)
(***************************************************************************)
Init == SchedInit /\ EnsureIdle /\ IntroIdle /\ PipeIdle

Next == SchedNext

Spec == Init /\ [][Next]_vars

(***************************************************************************)
(* The bounded-parallel scheduler under fair scheduling: the program takes *)
(* its next step, and an execution that is polled again and again          *)
(* eventually answers with a terminal status.                              *)
(***************************************************************************)
LiveInit ==
    /\ SchedInit
    /\ EnsureIdle
    /\ IntroIdle
    /\ PipeIdle
    /\ scope = "ALL"
    /\ mode = "2"
    /\ ~faults

LiveNext ==
    \/ ListJobs
    \/ ChooseRunMode
    \/ ParSubmit
    \/ ParSleep
    \/ ParPoll
    \/ ParReturn

\* The poll that sees the execution of job j terminal.
ObserveTerminal(j) == ParPoll /\ \E r \in term' \ term : r.jobId = j

LiveSpec ==
    /\ LiveInit
    /\ [][LiveNext]_vars
    /\ WF_vars(LiveNext)
    /\ \A j \in {IntOf(id) : id \in JobIds} : SF_vars(ObserveTerminal(j))

\* The same scheduler when the operator answers the parallelism prompt with
\* a number that is not positive.
ClampInit ==
    /\ LiveInit
    /\ parallel_str.text = "int"
    /\ parallel_str.val <= 0

ClampSpec ==
    /\ ClampInit
    /\ [][LiveNext]_vars
    /\ WF_vars(LiveNext)
    /\ \A j \in {IntOf(id) : id \in JobIds} : SF_vars(ObserveTerminal(j))

\* A client calling the ensure operations against the remote.
EnsureSpecInit == EnsureInit /\ SchedIdle /\ IntroIdle /\ PipeIdle

EnsureSpec == EnsureSpecInit /\ [][EnsureNext]_vars

\* An introspector constructed and asked for the schemas of a database.
IntroSpecInit == IntroInit /\ SchedIdle /\ EnsureIdle /\ PipeIdle

IntroSpec == IntroSpecInit /\ [][IntroNext]_vars

\* One run of the provisioning pipeline against a remote and a database.
PipeSpecInit == PipeInit /\ SchedIdle

PipeSpec == PipeSpecInit /\ [][PipeNext]_vars

(***************************************************************************)
(* Claims                                                                  *)
(***************************************************************************)
\* The parallelism asked for, when it is an integer >= 1.
AskedParallel == parallel_str.val
ParallelAsked == mode = "2" /\ parallel_str.text = "int" /\ parallel_str.val >= 1

\* The i-th smallest id of the job list is x.
IsNthSmallest(x, i) ==
    /\ x \in IdsOf(jobs)
    /\ Cardinality({y \in IdsOf(jobs) : y < x}) = i - 1

\* C1: in the bounded-parallel scheduler with maxParallel = P >= 1, the
\* executions started and not yet seen terminal (the entries of running, and
\* the StartExecution calls minus the terminal observations) never number
\* more than P.
C1_RunningBounded ==
    ParallelAsked =>
        /\ Len(running) <= AskedParallel
        /\ Len(started) - Cardinality(term) <= AskedParallel

\* C1 witness: P = 2, three jobs, two executions in flight and the third job
\* still waiting for a slot.
C1_Witness ==
    /\ ParallelAsked
    /\ AskedParallel = 2
    /\ Len(jobs) = 3
    /\ Len(running) = 2
    /\ index = 2
    /\ pc = "poll"

\* C2: in the bounded-parallel scheduler the StartExecution calls, in call
\* order, are the job ids in ascending numeric order, whatever the order of
\* the input list and of the completions.
C2_SubmissionAscending ==
    mode = "2" =>
        \A i \in 1 .. Len(started) : IsNthSmallest(started[i], i)

\* C2 witness: jobs 5, 3, 9 with maxParallel = 2 were submitted as 3, 5, 9,
\* and job 5 finished before job 3.
C2_Witness ==
    /\ jobs = <<<<5>>, <<3>>, <<9>>>>
    /\ ParallelAsked
    /\ AskedParallel = 2
    /\ started = <<3, 5, 9>>
    /\ \E r \in term : r.jobId = 5
    /\ \E k \in 1 .. Len(running) : running[k].jobId = 3

\* Every job of the list was submitted once and seen terminal.
AllJobsTerminal ==
    /\ Len(started) = Len(jobs)
    /\ {started[i] : i \in 1 .. Len(started)} = IdsOf(jobs)
    /\ {r.jobId : r \in term} = IdsOf(jobs)

\* C3: when no remote call fails and every execution eventually reports a
\* terminal status, the bounded-parallel scheduler eventually returns with
\* every job submitted and seen terminal; it returns only with the pending
\* queue and running both empty, and with both empty its next step is the
\* return.
C3_AllJobsFinish ==
    /\ <>(pc = "done" /\ (jobs # <<>> => outcome = "returned" /\ AllJobsTerminal))
    /\ [](pc = "done" /\ jobs # <<>> => index = Len(pending) /\ running = <<>>)
    /\ [][pc = "par" /\ index = Len(pending) /\ running = <<>> => pc' = "done"]_vars

\* C3 witness: three jobs, maxParallel = 2, the scheduler has returned after
\* seeing all three terminal.
C3_Witness ==
    /\ pc = "done"
    /\ Len(jobs) = 3
    /\ ParallelAsked
    /\ AskedParallel = 2
    /\ AllJobsTerminal
    /\ polls > 0

\* The create calls a recorded ensure call issued.
PostsOf(r) == {posts[k] : k \in r.first .. r.first + r.creates - 1}

IsGiven(v) == v \notin {None, ""}

\* C7: OracleDB.__init__ fails with a configuration error, before any
\* connection is attempted, when SID and SERVICE_NAME are both given and when
\* neither is (None or empty); it goes on to connect exactly when one of the
\* two is given.
C7_OracleExclusiveIdentifier ==
    (engine = "ORACLE" /\ ipc # "new") =>
        /\ (IsGiven(sid) /\ IsGiven(service_name)) =>
               /\ ipc = "failed"
               /\ ierr = "OracleDBError: both SID and SERVICE_NAME"
               /\ connects = 0
        /\ (~IsGiven(sid) /\ ~IsGiven(service_name)) =>
               /\ ipc = "failed"
               /\ ierr = "OracleDBError: neither SID nor SERVICE_NAME"
               /\ connects = 0
        /\ (IsGiven(sid) # IsGiven(service_name)) <=> connects = 1

\* C7 witness: both identifiers given, the constructor has failed without a
\* connection attempt.
C7_Witness ==
    /\ engine = "ORACLE"
    /\ sid = "ORAMASK"
    /\ service_name = "appservice"
    /\ ipc = "failed"
    /\ connects = 0

\* The system-schema denylist of each engine, as its query or filter states
\* it. For PostgreSQL these are information_schema and the names matching the
\* SQL pattern pg_%, in which _ stands for any one character: the names of at
\* least three characters that begin with "pg" (pg_catalog, and pgbench too).
Denylisted(e, n) ==
    CASE e = "ORACLE" -> n \in OracleSystemSchemas
      [] e = "MSSQL" -> n = "sys" \/ n = "INFORMATION_SCHEMA"
      [] e = "POSTGRES" ->
            \/ n = "information_schema"
            \/ /\ Len(NameChars[n]) >= 3
               /\ NameChars[n][1] = 112
               /\ NameChars[n][2] = 103

NoIdCreations ==
    {k \in 1 .. Len(calls) : /\ calls[k].op = "create_connector"
                             /\ calls[k].resp = "no_id"}

\* The schema has been taken up by the loop: its connector was looked up.
Processed(schema) ==
    \E k \in 1 .. Len(calls) : /\ calls[k].op = "find_connector"
                               /\ calls[k].schema = schema

\* C5: when connector creation for a schema is answered without a connector
\* id, the pipeline requests no ruleset and no profile job for that schema,
\* and goes on with the next one: once it has ended, every schema of the
\* list has been taken up.
C5_FailedConnectorIsolated ==
    \A k \in NoIdCreations :
        /\ \A m \in 1 .. Len(calls) :
              calls[m].schema = calls[k].schema =>
                  calls[m].op \notin {"create_ruleset", "bulk_add",
                                      "create_profile_job"}
        /\ ppc \in {"done", "raised"} =>
              \A i \in 1 .. Len(schemas) : Processed(schemas[i])

\* The payload bulk_add_tables_to_ruleset is to send for a table list.
ExpectedTableMetadata ==
    [i \in 1 .. Len(tables) |-> [tableName |-> tables[i],
                                 rulesetId |-> ruleset_id]]

\* C8: bulk_add_tables_to_ruleset with an empty table list sends nothing and
\* returns without error; with a non-empty list it sends exactly one PUT,
\* whose tableMetadata has one entry per table name, in the order given,
\* each carrying the ruleset id.
C8_BulkAddOnePut ==
    [][ppc = "bulk" =>
         IF tables = <<>>
         THEN /\ calls' = calls
              /\ ppc' = "job"
              /\ perr' = None
         ELSE /\ Len(calls') = Len(calls) + 1
              /\ SubSeq(calls', 1, Len(calls)) = calls
              /\ LET c == calls'[Len(calls')]
                 IN  /\ c.op = "bulk_add"
                     /\ c.body.method = "PUT"
                     /\ c.body.ruleset = ruleset_id
                     /\ c.body.tableMetadata = ExpectedTableMetadata]_vars

\* Both cases have happened in one run: the bulk add of a first schema with
\* tables sent its PUT, and the bulk add of a second schema without tables
\* has returned.
C8_Witness ==
    /\ ppc = "job"
    /\ si = 2
    /\ tables = <<>>
    /\ Cardinality({k \in 1 .. Len(calls) : calls[k].op = "bulk_add"}) = 1
    /\ \E k \in 1 .. Len(calls) :
          /\ calls[k].op = "bulk_add"
          /\ calls[k].schema = schemas[1]
          /\ Len(calls[k].body.tableMetadata) = 2

\* Positions of the call log where a request for a ruleset, a bulk table
\* update or a profile job was answered with an error.
RemoteErrors ==
    {k \in 1 .. Len(calls) :
        /\ calls[k].op \in {"create_ruleset", "bulk_add", "create_profile_job"}
        /\ calls[k].resp = "http_error"}

\* C11: a remote error during ruleset creation, bulk table update or profile
\* job creation for one schema ends only that schema's iteration: once the
\* pipeline has ended, every schema of the list has been taken up, and the
\* pipeline did not end with the error.
C11_RemoteErrorIsolated ==
    (RemoteErrors # {} /\ ppc \in {"done", "raised"}) =>
        /\ ppc = "done"
        /\ \A i \in 1 .. Len(schemas) : Processed(schemas[i])

\* An ensure call of the run failed.
EnsureFailed == \E k \in 1 .. Len(results) : ~results[k].ok

\* C12: after a failure of ensure_application or ensure_environment the
\* pipeline has ended with the error, no introspector was constructed, no
\* schema was discovered and no connector, ruleset, bulk-update or
\* profile-job request was sent.
C12_EnsureFailureFatal ==
    EnsureFailed =>
        /\ ppc = "raised"
        /\ perr = "CEError"
        /\ ipc = "idle"
        /\ connects = 0
        /\ schema_list = <<>>
        /\ schemas = <<>>
        /\ calls = <<>>

\* C12 witness: the application was ensured, ensure_environment failed after
\* it sent its create request, and the pipeline has ended.
C12_Witness ==
    /\ Len(results) = 2
    /\ results[1].ok
    /\ ~results[2].ok
    /\ results[2].creates = 1
    /\ ppc = "raised"

\* The schema the operator asked for, as the pipeline looks it up.
WantedSchema == IF engine = "ORACLE" THEN Upper(schema_name) ELSE schema_name

\* C13: with scope SCHEMA, once the schemas are discovered: if the schema
\* asked for is not among them the pipeline ends with the not-found outcome
\* and sends no connector lookup and no create request; if it is, the loop
\* runs over that schema alone and every request is for it.
C13_SingleSchemaScope ==
    (connector_scope = "SCHEMA" /\ si >= 1) =>
        IF \E i \in 1 .. Len(schema_list) : schema_list[i] = WantedSchema
        THEN /\ schemas = <<WantedSchema>>
             /\ perr # "schema not found"
             /\ \A k \in 1 .. Len(calls) : calls[k].schema = WantedSchema
             /\ ppc \in {"done", "raised"} => Processed(WantedSchema)
        ELSE /\ ppc = "done"
             /\ perr = "schema not found"
             /\ calls = <<>>

\* C13 witness: an MSSQL database holding dbo and sys, the operator asks for
\* sys, which discovery leaves out; the pipeline has ended without a request.
C13_Witness ==
    /\ engine = "MSSQL"
    /\ connector_scope = "SCHEMA"
    /\ schema_name = "sys"
    /\ db_schemas = {"dbo", "sys"}
    /\ schema_list = <<"dbo">>
    /\ ppc = "done"
    /\ perr = "schema not found"
    /\ calls = <<>>

\* The operation has ended.
Ended == pc \in {"done", "raised", "crashed"}

\* C18: every create request of the pipeline follows a lookup, in the same
\* run, of the resource's key that found nothing: no application or
\* environment is posted where one existed, and every connector and every
\* profile job is created only after a lookup for that schema's connector,
\* or profile job, that was answered.
C18_LookupBeforeCreate ==
    /\ \A k \in 1 .. Len(results) : results[k].creates > 0 => ~results[k].existed
    /\ \A k \in 1 .. Len(calls) :
          /\ calls[k].op = "create_connector" =>
                \E m \in 1 .. k - 1 : /\ calls[m].op = "find_connector"
                                      /\ calls[m].schema = calls[k].schema
                                      /\ calls[m].resp = "ok"
          /\ calls[k].op = "create_profile_job" =>
                \E m \in 1 .. k - 1 : /\ calls[m].op = "find_profile_job"
                                      /\ calls[m].schema = calls[k].schema
                                      /\ calls[m].resp = "ok"

\* The database identifier a create-connector payload for Oracle carries:
\* the sid field of a native payload, the last part of the URL of a JDBC one.
PayloadIdentifier(body) ==
    IF "sid" \in DOMAIN body THEN body.sid ELSE body.jdbc[2]

\* C19: every create-connector payload the pipeline sends for Oracle carries
\* a database identifier that is not empty, the SID or the SERVICE_NAME of
\* the configuration.
C19_OracleConnectorOneIdentifier ==
    \A k \in 1 .. Len(calls) :
        (calls[k].op = "create_connector"
           /\ calls[k].body.databaseType = "ORACLE") =>
            /\ PayloadIdentifier(calls[k].body) \notin {None, ""}
            /\ PayloadIdentifier(calls[k].body) \in {sid, service_name}

\* C20: once a list_schemas call has returned or failed, no connection of
\* the introspector is open at the database and none is kept by it.
C20_NoConnectionHeld ==
    ipc \in {"listed", "failed"} =>
        /\ open_conns = 0
        /\ connection = None

\* C14: single mode with a selected job id that is in the job list, and no
\* failing call: the run ends returned, with exactly one StartExecution call,
\* for that job, and with that execution seen terminal.
C14_SingleJobRunsOnce ==
    (scope = "SINGLE" /\ jobs # <<>> /\ sel_id \in IdsOf(jobs) /\ ~faults
       /\ Ended) =>
        /\ outcome = "returned"
        /\ started = <<sel_id>>
        /\ \E r \in term : r.jobId = sel_id

\* C15: in serial mode the StartExecution calls are the job ids in ascending
\* order, at most one execution is started and not yet seen terminal, and
\* where the loop is about to start a job every job started before has been
\* seen terminal.
C15_SerialOneAtATime ==
    (scope = "ALL" /\ mode = "1") =>
        /\ \A i \in 1 .. Len(started) : IsNthSmallest(started[i], i)
        /\ Len(started) - Cardinality(term) <= 1
        /\ pc = "ser" =>
              {started[i] : i \in 1 .. Len(started)} = {r.jobId : r \in term}
        /\ pc = "ser_poll" => Len(started) = Cardinality(term) + 1

\* C15 witness: jobs 9, 3, 5 in serial mode; 3 and 5 were run to a terminal
\* status one after the other and the execution of 9 is being polled.
C15_Witness ==
    /\ mode = "1"
    /\ jobs = <<<<9>>, <<3>>, <<5>>>>
    /\ started = <<3, 5, 9>>
    /\ {r.jobId : r \in term} = {3, 5}
    /\ pc = "ser_poll"
    /\ polls > 0

\* The operator asked for parallel mode with a number that is not positive.
NonPositiveAsked ==
    mode = "2" /\ parallel_str.text = "int" /\ parallel_str.val <= 0

\* C16: asked for maxParallel <= 0, the scheduler runs with max_parallel = 1:
\* never more than one execution in flight, and (under the fairness of
\* ClampSpec) it ends with every job submitted and seen terminal.
C16_NonPositiveClampedToOne ==
    /\ [](NonPositiveAsked /\ pc \notin {"list", "all"} =>
            /\ max_parallel = 1
            /\ Len(running) <= 1
            /\ Len(started) - Cardinality(term) <= 1)
    /\ (NonPositiveAsked ~> (pc = "done" /\ AllJobsTerminal))

\* C16 witness: asked for -1 with three jobs, the scheduler has returned
\* with all three seen terminal.
C16_Witness ==
    /\ NonPositiveAsked
    /\ parallel_str.val = -1
    /\ Len(jobs) = 3
    /\ max_parallel = 1
    /\ pc = "done"
    /\ AllJobsTerminal

\* C17: with an empty job list the run starts no execution, asks for no
\* status, never reaches a sleep, and returns.
C17_EmptyJobListNoOp ==
    jobs = <<>> =>
        /\ started = <<>>
        /\ polls = 0
        /\ term = {}
        /\ running = <<>>
        /\ pc \in {"list", "done"}
        /\ pc = "done" => outcome = "NoJobs"

\* C17 witness: the run over an empty job list has returned.
C17_Witness ==
    /\ jobs = <<>>
    /\ pc = "done"
    /\ outcome = "NoJobs"

\* C6: single-run mode with a selected job id that is not in the (non-empty)
\* job list ends with the not-found outcome, no StartExecution call and no
\* status poll.
C6_AbsentJobNotFound ==
    (scope = "SINGLE" /\ jobs # <<>> /\ sel_id \notin IdsOf(jobs) /\ Ended) =>
        /\ outcome = "NotFound"
        /\ started = <<>>
        /\ polls = 0
        /\ term = {}

\* C23: no automatic retry. In one scheduler run start_profile_execution is
\* called at most once per job id, whatever status the execution ends with,
\* and an execution that a poll has seen terminal is not polled again: it is
\* neither in running, nor in the rest of the poll pass, nor the execution the
\* serial loop is polling.
C23_NoAutomaticRetry ==
    /\ \A i, j \in 1 .. Len(started) : i # j => started[i] # started[j]
    /\ \A r \in term :
         /\ \A k \in 1 .. Len(running) :
              running[k].executionId # r.executionId
         /\ \A k \in 1 .. Len(pollq) : pollq[k].executionId # r.executionId
         /\ pc = "ser_poll" => exec_id # r.executionId

\* A parallel run that ended with a failed execution and one start per job.
C23_Witness ==
    /\ mode = "2"
    /\ pc = "done"
    /\ Len(jobs) = MaxJobs
    /\ Len(started) = Len(jobs)
    /\ \E r \in term : r.logged = "FAILED"
    /\ \E r \in term : r.logged = "CANCELLED"

\* C24: backfill. Every sleep of the parallel scheduler (the step from the
\* submit loop to the poll pass) starts with running holding max_parallel
\* entries or with no job left to submit: the slots a poll pass freed were
\* refilled from the pending jobs before the next sleep.
C24_BackfillBeforeSleep ==
    [][(pc = "par" /\ pc' = "poll")
         => (Len(running) = max_parallel \/ index = Len(pending))]_vars

\* A poll pass starts with a full running list after an execution finished:
\* the freed slot went to the last pending job.
C24_Witness ==
    /\ pc = "poll"
    /\ pollq = running
    /\ term # {}
    /\ max_parallel = MaxParallel
    /\ Len(running) = max_parallel
    /\ index = Len(pending)
    /\ Len(pending) = MaxJobs

\* The jobs of the sorted list that are not yet submitted, the jobs in running
\* and the jobs that finished.
NotSubmitted == {IntOf(pending[i]) : i \in index + 1 .. Len(pending)}

InRunning == {running[k].jobId : k \in 1 .. Len(running)}

Finished == {r.jobId : r \in term}

\* C27: scheduler bookkeeping in parallel mode. Every job of the sorted list
\* is in exactly one of the three groups (not yet submitted, running,
\* finished), running holds no job twice, index never decreases, a finished
\* job stays finished and a job in running never goes back to the pending
\* jobs.
C27_SchedulerBookkeeping ==
    /\ [](mode = "2" =>
            /\ NotSubmitted \cup InRunning \cup Finished = IdsOf(pending)
            /\ NotSubmitted \cap InRunning = {}
            /\ NotSubmitted \cap Finished = {}
            /\ InRunning \cap Finished = {}
            /\ \A i, j \in 1 .. Len(running) :
                 i # j => running[i].jobId # running[j].jobId)
    /\ [][mode = "2" =>
            /\ index' >= index
            /\ Finished \subseteq Finished'
            /\ InRunning \subseteq InRunning' \cup Finished']_vars

\* One job in each of the three groups.
C27_Witness ==
    /\ mode = "2"
    /\ NotSubmitted # {}
    /\ InRunning # {}
    /\ Finished # {}

\* C28: a remote error stops the whole parallel batch. Once
\* start_profile_execution or get_execution_status has raised in the parallel
\* scheduler the run is over: the error has left the function, and no step
\* follows, so no pending job is submitted and no execution still in running
\* is polled.
C28_RemoteErrorStopsBatch ==
    /\ []((mode = "2" /\ outcome = "CEError") => pc = "raised")
    /\ [][~(mode = "2" /\ pc = "raised")]_vars

\* A status call raised while an execution was running and a job was still
\* waiting to be submitted.
C28_Witness ==
    /\ mode = "2"
    /\ pc = "raised"
    /\ outcome = "CEError"
    /\ pollq # <<>>
    /\ running # <<>>
    /\ index < Len(pending)

\* C30: the serial batch goes on past a job that ended FAILED, ERROR or
\* CANCELLED. A serial run that no remote error cut short ends only after
\* every job of the list was started, once each and in ascending id order,
\* and was polled to a terminal status: N jobs, N start calls.
C30_SerialContinuesPastFailure ==
    /\ [](mode = "1" /\ pc = "done" =>
            /\ Len(started) = Len(jobs)
            /\ \A n \in 1 .. Len(started) : IsNthSmallest(started[n], n)
            /\ \A i \in 1 .. Len(jobs) :
                 \E r \in term : r.jobId = IntOf(jobs[i]))
    /\ [][(mode = "1" /\ pc = "ser_poll" /\ term' # term) =>
            (pc' = "ser" /\ index' = index + 1)]_vars

\* A finished serial run of three jobs whose first job failed and in which a
\* later one was cancelled.
C30_Witness ==
    /\ mode = "1"
    /\ pc = "done"
    /\ Len(jobs) = MaxJobs
    /\ Len(started) = MaxJobs
    /\ \E r \in term : r.jobId = started[1] /\ r.logged = "FAILED"
    /\ \E r \in term : r.jobId = started[2] /\ r.logged = "CANCELLED"

\* The connectors of the pipeline's environment that carry a schema's
\* connector name, and the create-connector calls made for a schema.
ConnectorsNamedFor(schema) ==
    {c \in connectors : /\ c.environmentId = env_id
                        /\ c.connectorName = <<"CONNECTOR_", schema>>}

CreateConnectorCalls(log, schema) ==
    {k \in 1 .. Len(log) : /\ log[k].op = "create_connector"
                           /\ log[k].schema = schema}

\* C21: connector reuse. For each schema the pipeline looks up
\* CONNECTOR_<schema> in the environment. When the lookup finds it no
\* create-connector call is made for the schema and the found id goes to
\* create_ruleset; when it does not, one create-connector call is made and
\* the id it returns goes to create_ruleset.
C21_ConnectorReuse ==
    /\ [](\A k \in 1 .. Len(calls) :
            /\ calls[k].op = "create_ruleset" =>
                 \E c \in ConnectorsNamedFor(calls[k].schema) :
                    calls[k].body.databaseConnectorId =
                        IntOf(c.databaseConnectorId)
            /\ calls[k].op = "create_connector" =>
                 /\ Cardinality(CreateConnectorCalls(calls, calls[k].schema)) = 1
                 /\ k > 1
                 /\ calls[k - 1].op = "find_connector"
                 /\ calls[k - 1].schema = calls[k].schema)
    /\ [][(ppc = "find" /\ ppc' # "raised") =>
            IF ConnectorsNamedFor(schemas[si]) # {}
            THEN /\ ppc' = "ruleset"
                 /\ \E c \in ConnectorsNamedFor(schemas[si]) :
                      connector_id' = IntOf(c.databaseConnectorId)
                 /\ connectors' = connectors
            ELSE ppc' = "create"]_vars
    /\ [][(ppc = "create" /\ ppc' # "raised") =>
            /\ ppc' = "ruleset"
            /\ ConnectorsNamedFor(schemas[si]) = {}
            /\ \E c \in connectors' \ connectors :
                 /\ c.connectorName = <<"CONNECTOR_", schemas[si]>>
                 /\ connector_id' = IntOf(c.databaseConnectorId)]_vars
    /\ [][ppc # "create" =>
            \A k \in 1 .. Len(calls') :
               calls'[k].op = "create_connector" => k <= Len(calls)]_vars
    /\ [][ppc = "ruleset" =>
            /\ calls'[Len(calls')].op = "create_ruleset"
            /\ calls'[Len(calls')].schema = schemas[si]
            /\ calls'[Len(calls')].body.databaseConnectorId = connector_id]_vars

\* A finished run over two schemas: the connector of the first was found and
\* not created, the connector of the second was created, and both rulesets
\* were requested.
C21_Witness ==
    /\ ppc = "done"
    /\ Len(schemas) = 2
    /\ CreateConnectorCalls(calls, schemas[1]) = {}
    /\ CreateConnectorCalls(calls, schemas[2]) # {}
    /\ \A i \in 1 .. 2 :
         \E k \in 1 .. Len(calls) :
            /\ calls[k].op = "create_ruleset"
            /\ calls[k].schema = schemas[i]
            /\ calls[k].resp = "ok"

\* C25: a create_profile_job answer without a profile-job id does not abort
\* the pipeline. The step that gets the answer raises nothing and goes on to
\* the next schema (or ends the loop after the last one), and the schemas
\* after it are processed like any other.
C25_NoJobIdContinues ==
    /\ [][(/\ ppc = "job"
           /\ calls'[Len(calls')].op = "create_profile_job"
           /\ calls'[Len(calls')].resp = "no_id") =>
            /\ perr' = perr
            /\ si' = si + 1
            /\ ppc' = (IF si < Len(schemas) THEN "find" ELSE "done")]_vars
    /\ [](\A k \in 1 .. Len(calls) :
            (/\ calls[k].op = "create_profile_job"
             /\ calls[k].resp = "no_id"
             /\ ppc = "done") =>
               \A i \in 1 .. Len(schemas) :
                  \E m \in 1 .. Len(calls) :
                     /\ calls[m].op = "create_profile_job"
                     /\ calls[m].schema = schemas[i])

\* A finished run over two schemas in which the profile job of the first got
\* no id and the second schema went through all its steps.
C25_Witness ==
    /\ ppc = "done"
    /\ Len(schemas) = 2
    /\ \E k \in 1 .. Len(calls) :
         /\ calls[k].op = "create_profile_job"
         /\ calls[k].schema = schemas[1]
         /\ calls[k].resp = "no_id"
    /\ \E k \in 1 .. Len(calls) :
         /\ calls[k].op = "create_profile_job"
         /\ calls[k].schema = schemas[2]
         /\ calls[k].resp = "ok"

\* The ruleset ids that requests logged so far were made for.
UsedRulesetIds ==
    {calls[k].body.ruleset : k \in {m \in 1 .. Len(calls) : calls[m].op = "bulk_add"}}
    \cup
    {calls[k].body.rulesetId :
        k \in {m \in 1 .. Len(calls) : calls[m].op = "create_profile_job"}}

\* C26: the order of the steps for one schema. create_ruleset comes first
\* and its answer is a ruleset id no earlier schema used; then the tables of
\* the schema are listed; then the bulk table sync is sent for that ruleset
\* id, or skipped when there is no table; then create_profile_job is sent
\* for the same ruleset id, also when there was no table.
C26_SchemaStepOrder ==
    /\ [][(ppc = "ruleset" /\ ppc' # "raised") =>
            /\ ppc' = "tables"
            /\ calls'[Len(calls')].op = "create_ruleset"
            /\ calls'[Len(calls')].schema = schemas[si]
            /\ ruleset_id' \notin UsedRulesetIds
            /\ si' = si]_vars
    /\ [][ppc = "tables" =>
            /\ ppc' = "bulk"
            /\ calls' = calls
            /\ ruleset_id' = ruleset_id
            /\ si' = si]_vars
    /\ [][(ppc = "bulk" /\ ppc' # "raised") =>
            /\ ppc' = "job"
            /\ ruleset_id' = ruleset_id
            /\ si' = si
            /\ IF tables = <<>>
               THEN calls' = calls
               ELSE /\ calls'[Len(calls')].op = "bulk_add"
                    /\ calls'[Len(calls')].schema = schemas[si]
                    /\ calls'[Len(calls')].body.ruleset = ruleset_id]_vars
    /\ [][ppc = "job" =>
            /\ Len(calls') = Len(calls) + 1
            /\ calls'[Len(calls')].op = "create_profile_job"
            /\ calls'[Len(calls')].schema = schemas[si]
            /\ calls'[Len(calls')].body.rulesetId = ruleset_id]_vars
    /\ [](\A k \in 1 .. Len(calls) :
            calls[k].op = "create_profile_job" =>
               \E m \in 1 .. k - 1 :
                  /\ calls[m].op = "create_ruleset"
                  /\ calls[m].schema = calls[k].schema
                  /\ calls[m].resp = "ok"
                  /\ \A b \in 1 .. Len(calls) :
                       (calls[b].op = "bulk_add" /\ calls[b].schema = calls[k].schema)
                          => /\ m < b
                             /\ b < k
                             /\ calls[b].body.ruleset = calls[k].body.rulesetId)

\* A finished run over two schemas: the first had tables and got its bulk
\* sync, the second had none, got no bulk sync and still got its profile job,
\* for a ruleset id of its own.
C26_Witness ==
    /\ ppc = "done"
    /\ Len(schemas) = 2
    /\ tables = <<>>
    /\ \E b \in 1 .. Len(calls) :
         calls[b].op = "bulk_add" /\ calls[b].schema = schemas[1]
    /\ \A b \in 1 .. Len(calls) :
         calls[b].op = "bulk_add" => calls[b].schema # schemas[2]
    /\ \E j, k \in 1 .. Len(calls) :
         /\ calls[j].op = "create_profile_job"
         /\ calls[j].schema = schemas[1]
         /\ calls[k].op = "create_profile_job"
         /\ calls[k].schema = schemas[2]
         /\ calls[k].resp = "ok"
         /\ calls[j].body.rulesetId # calls[k].body.rulesetId

\* The ensure calls of the run returned, and the remote was asked for the jobs.
EnsureDone == Len(results) = 2 /\ results[1].ok /\ results[2].ok

\* C29: run-profile-jobs ensures before it lists. By the time the job list
\* is fetched both ensure calls have returned: the named application and the
\* named environment exist on the remote under the ids the calls returned,
\* one create request was sent for each that was missing and none for one
\* that was there, and no create request is sent later. When the environment
\* has no profile job the operation returns without a start call.
C29_RunEnsuresBeforeListing ==
    /\ []((pc \notin {"ensure_app", "ensure_env", "raised"}) => EnsureDone)
    /\ [](EnsureDone =>
            /\ \E a \in apps : /\ a.applicationName = RunAppName
                               /\ IntOf(a.applicationId) = results[1].id
            /\ \E e \in envs : /\ e.environmentName = RunEnvName
                               /\ e.applicationId = results[1].id
                               /\ IntOf(e.environmentId) = results[2].id
            /\ \A n \in 1 .. 2 :
                 results[n].creates = (IF results[n].existed THEN 0 ELSE 1)
            /\ Len(posts) = results[1].creates + results[2].creates)
    /\ [][pc \notin {"ensure_app", "ensure_env"} => posts' = posts]_vars
    /\ [](jobs = <<>> =>
            /\ started = <<>>
            /\ polls = 0
            /\ term = {}
            /\ pc \in {"ensure_app", "ensure_env", "list", "raised", "done"}
            /\ pc = "done" => outcome = "NoJobs")

\* Neither the application nor the environment existed: both were created,
\* the job list was empty and the operation returned without a start call.
C29_Witness ==
    /\ pc = "done"
    /\ outcome = "NoJobs"
    /\ Len(posts) = 2
    /\ ~results[1].existed
    /\ ~results[2].existed
    /\ started = <<>>

\* What a step of a polling loop does with the status it reads.
StatusBranchTaken ==
    LET eid == last_status'.executionId
        st == last_status'.status
    IN  /\ eid = (IF pc = "poll" THEN Head(pollq).executionId ELSE exec_id)
        /\ IF st \in {"SUCCEEDED", "FAILED", "ERROR", "CANCELLED"}
           THEN /\ \E r \in term' \ term :
                     /\ r.executionId = eid
                     /\ r.logged = (IF st \in {"FAILED", "ERROR"}
                                    THEN "FAILED" ELSE st)
                /\ \A k \in 1 .. Len(running') :
                     running'[k].executionId # eid
                /\ pc = "ser_poll" => (pc' = "ser" /\ exec_id' # eid)
           ELSE /\ term' = term
                /\ running' = running
                /\ outcome' = outcome
                /\ pc' # "raised"
                /\ pc = "poll" =>
                     \E k \in 1 .. Len(running') :
                        running'[k].executionId = eid
                /\ pc = "ser_poll" =>
                     (pc' = "ser_poll" /\ exec_id' = exec_id)

\* C22: the polling state machine of one execution, in the serial loop and
\* in the poll pass of the parallel scheduler. A status call that reads
\* SUCCEEDED, FAILED, ERROR or CANCELLED takes the execution out of the
\* polled state and records it terminal, FAILED and ERROR alike as failed;
\* a call that reads anything else (PENDING, RUNNING, no status, an unknown
\* value) changes nothing but the poll count, is no error, and leaves the
\* execution to be polled again.
C22_PollingStateMachine ==
    [][(pc \in {"poll", "ser_poll"}) => StatusBranchTaken]_vars

\* A parallel run in which a status call has just read ERROR: the execution
\* is recorded as failed and gone from running, while another one that
\* answered in progress before is still there.
C22_Witness ==
    /\ mode = "2"
    /\ last_status.status = "ERROR"
    /\ \E r \in term : /\ r.executionId = last_status.executionId
                       /\ r.logged = "FAILED"
    /\ polls > 0
    /\ running # <<>>

====
